---- MODULE Spec2Model ----
(***************************************************************************)
(* Model of linear_model_selection.ipynb: the data and basis-vector cells, *)
(* the per-model fitting loop that fills inference_data_dict, and the      *)
(* explicit leave-one-out (LOO) cross-validation loop.                     *)
(*                                                                         *)
(* Numbers.  The notebook computes in float64; the model computes the same *)
(* expressions exactly, over integers and rationals.  A rational is a pair *)
(* <<p, q>> with q > 0 in lowest terms.  The grid x = linspace(-6, 6, n)   *)
(* is kept in units of 6/(n-1), which makes every x[i] an integer.  Array  *)
(* indices keep the notebook's 0-based values; a TLA+ sequence holding an  *)
(* array a stores a[j] at position j+1.  A matrix is the sequence of its   *)
(* rows.                                                                   *)
(***************************************************************************)
EXTENDS Integers, Sequences, FiniteSets, TLC

\* ------------------------------------------------------------------ bounds
\* largest dataset length n explored (the notebook uses n = 1000)
MaxN == 4
\* observations y[i] are drawn from 0..MaxY (the notebook draws signal + noise)
MaxY == 1

\* ------------------------------------------------------- integer helpers
Abs(a) == IF a < 0 THEN 0 - a ELSE a

Min(a, b) == IF a < b THEN a ELSE b

Max(a, b) == IF a > b THEN a ELSE b

RECURSIVE Gcd(_, _)
Gcd(a, b) == IF b = 0 THEN a ELSE Gcd(b, a % b)

RECURSIVE SumSeq(_)
SumSeq(s) == IF s = <<>> THEN 0 ELSE Head(s) + SumSeq(Tail(s))

RECURSIVE GcdSeq(_)
GcdSeq(s) == IF s = <<>> THEN 0 ELSE Gcd(Abs(Head(s)), GcdSeq(Tail(s)))

\* exact quotient a / d for d > 0 dividing a
ExactDiv(a, d) == IF a < 0 THEN 0 - ((0 - a) \div d) ELSE a \div d

\* the element of a singleton set
The(S) == CHOOSE e \in S : TRUE

\* ------------------------------------------------------------- rationals
RatNorm(p, q) ==
    The({ <<ExactDiv(p, g), q \div g>> : g \in {Gcd(Abs(p), q)} })

\* least common multiple of two positive integers
Lcm(p, q) == (p \div Gcd(p, q)) * q

RatAdd(a, b) ==
    The({ RatNorm(a[1] * (l \div a[2]) + b[1] * (l \div b[2]), l) : l \in {Lcm(a[2], b[2])} })

RatSub(a, b) == RatAdd(a, <<0 - b[1], b[2]>>)

RatMul(a, b) == RatNorm(a[1] * b[1], a[2] * b[2])

RatDivInt(a, m) == RatNorm(a[1], a[2] * m)

RatLeq(a, b) ==
    \A l \in {Lcm(a[2], b[2])} : a[1] * (l \div a[2]) <= b[1] * (l \div b[2])

RatOfInt(a) == <<a, 1>>

\* ---------------------------------------------------------- linear algebra
Dot(u, v) == SumSeq([t \in 1..Len(u) |-> u[t] * v[t]])

RemoveAt(s, t) == [u \in 1..(Len(s) - 1) |-> IF u < t THEN s[u] ELSE s[u + 1]]

Minor(M, r, c) == [u \in 1..(Len(M) - 1) |-> RemoveAt(RemoveAt(M, r)[u], c)]

Sign(t) == IF t % 2 = 0 THEN 1 ELSE 0 - 1

RECURSIVE Det(_)
Det(M) ==
    IF M = <<>> THEN 1
    ELSE SumSeq([c \in 1..Len(M) |-> Sign(1 + c) * M[1][c] * Det(Minor(M, 1, c))])

Adj(M) == [r \in 1..Len(M) |-> [c \in 1..Len(M) |-> Sign(r + c) * Det(Minor(M, c, r))]]

MatVec(M, v) == [r \in 1..Len(M) |-> Dot(M[r], v)]

\* the n columns of the matrix a, each a vector of Len(a) entries
ColVecs(a, n) == [c \in 1..n |-> [r \in 1..Len(a) |-> a[r][c]]]

\* Gram matrix of a list of vectors
Gram(L) == [s \in 1..Len(L) |-> [t \in 1..Len(L) |-> Dot(L[s], L[t])]]

Pick(L, S) == [t \in 1..Len(S) |-> L[S[t]]]

\* indices of a maximal linearly independent sublist of L, chosen greedily
RECURSIVE IndepFrom(_, _, _)
IndepFrom(L, c, S) ==
    IF c > Len(L) THEN S
    ELSE IF Det(Gram(Pick(L, Append(S, c)))) # 0
         THEN IndepFrom(L, c + 1, Append(S, c))
         ELSE IndepFrom(L, c + 1, S)

Rank(L) == Len(IndepFrom(L, 1, <<>>))

\* ------------------------------------------------------- numpy / python
\* range(a, b) and the slice a:b inside np.r_: a, a+1, ..., b-1; empty if b <= a
Arange(a, b) == [t \in 1..Max(0, b - a) |-> a + t - 1]

\* np.linspace(-6, 6, n), in units of 6/(n-1): x[i] = 2*i - (n-1)
Linspace(n) == [t \in 1..n |-> 2 * (t - 1) - (n - 1)]

\* seq[1:k+1]: a prefix that starts one element late
SliceSkipFirst(seq, k) == SubSeq(seq, 2, Min(k + 1, Len(seq)))

\* seq[:k-1]: a prefix that stops one element early
SliceOffByOne(seq, k) ==
    IF k - 1 < 0 THEN SubSeq(seq, 1, Max(0, Len(seq) + k - 1))
    ELSE SubSeq(seq, 1, Min(k - 1, Len(seq)))

\* seq[:k] for a python list
Slice(seq, k) ==
    IF k < 0 THEN SubSeq(seq, 1, Max(0, Len(seq) + k))
    ELSE SubSeq(seq, 1, Min(k, Len(seq)))

\* np.vstack(rows): the rows stacked; raises ValueError on an empty list
Vstack(rows) ==
    IF rows = <<>> THEN [ok |-> FALSE, err |-> "ValueError", value |-> <<>>]
    ELSE [ok |-> TRUE, err |-> "none", value |-> rows]

\* m.T for a matrix with at least one row
Transpose(m) == [c \in 1..Len(m[1]) |-> [r \in 1..Len(m) |-> m[r][c]]]

\* np.vstack(basis_vectors[:n_basis_vectors]).T
DesignMatrix(bv, k) ==
    LET st == Vstack(Slice(bv, k)) IN
    IF st.ok THEN [ok |-> TRUE, err |-> "none", value |-> Transpose(st.value)]
    ELSE st

\* np.r_[0:i+1, i+1:n]: the held-out index stays in the training set
IndicesKeepI(i, n) == Arange(0, i + 1) \o Arange(i + 1, n)

\* np.r_[0:i-1, i+1:n]
Indices(i, n) == Arange(0, i - 1) \o Arange(i + 1, n)

\* a[indices] (and a[indices, :] for a matrix): a new array, a is not written
Take(a, ind) == [t \in 1..Len(ind) |-> a[ind[t] + 1]]

\* Steps of the minimum-norm least-squares solution pinv(a) @ b.  With C a
\* maximal independent set of columns of a and a = C F, pinv(a) is
\* F^T (F F^T)^-1 (C^T C)^-1 C^T.  F is kept as the integer matrix G times a
\* rational factor, and the solution as the integer vector num over den > 0.
\* Each intermediate matrix is bound once, as the element of a singleton set.
LsqReduce(num, den) ==
    The({ [ok |-> TRUE, err |-> "none",
           num |-> [c \in 1..Len(num) |-> ExactDiv(num[c], h)], den |-> den \div h] :
          h \in {Gcd(GcdSeq(num), den)} })

LsqSolve(G, g, w, n) ==
    The({ The({ LsqReduce(num, den) :
                num \in {[c \in 1..n |-> Dot([t \in 1..Len(G) |-> G[t][c]], v)]},
                den \in {g * Det(GGt)} }) :
          GGt \in {Gram(G)}, v \in {MatVec(Adj(Gram(G)), w)} })

LsqScale(G0, w, n) ==
    The({ The({ LsqSolve(G, g, w, n) :
                G \in {[t \in 1..Len(G0) |-> [c \in 1..n |-> ExactDiv(G0[t][c], g)]]} }) :
          g \in {GcdSeq([t \in 1..Len(G0) |-> GcdSeq(G0[t])])} })

LsqFactor(A1, CtX, Ctb, n) ==
    The({ LsqScale(G0, w, n) :
          G0 \in {[t \in 1..Len(A1) |->
                      [c \in 1..n |-> Dot(A1[t], [u \in 1..Len(A1) |-> CtX[u][c]])]]},
          w \in {MatVec(A1, Ctb)} })

LsqPinv(C, cols, b, n) ==
    The({ LsqFactor(A1, CtX, Ctb, n) :
          A1  \in {Adj(Gram(C))},
          CtX \in {[t \in 1..Len(C) |-> [c \in 1..n |-> Dot(C[t], cols[c])]]},
          Ctb \in {[t \in 1..Len(C) |-> Dot(C[t], b)]} })

LsqColumns(cols, S, b, n) ==
    IF S = <<>> THEN [ok |-> TRUE, err |-> "none", num |-> [c \in 1..n |-> 0], den |-> 1]
    ELSE The({ LsqPinv(C, cols, b, n) : C \in {Pick(cols, S)} })

\* a solver that refuses a matrix with fewer rows than columns
LstsqStrict(a, b, n) ==
    IF Len(a) # Len(b) THEN [ok |-> FALSE, err |-> "LinAlgError", num |-> <<>>, den |-> 1]
    ELSE IF Len(a) < n
    THEN [ok |-> FALSE, err |-> "UnderdeterminedSystem", num |-> <<>>, den |-> 1]
    ELSE The({ The({ LsqColumns(cols, S, b, n) : S \in {IndepFrom(cols, 1, <<>>)} }) :
               cols \in {ColVecs(a, n)} })

\* np.linalg.lstsq(a, b, rcond=-1)[0] for a of shape (Len(a), n): the
\* least-squares solution of minimum norm.  Raises LinAlgError when the row
\* counts of a and b differ; it does not raise when a has fewer rows than
\* columns or is rank deficient.
Lstsq(a, b, n) ==
    IF Len(a) # Len(b) THEN [ok |-> FALSE, err |-> "LinAlgError", num |-> <<>>, den |-> 1]
    ELSE The({ The({ LsqColumns(cols, S, b, n) : S \in {IndepFrom(cols, 1, <<>>)} }) :
               cols \in {ColVecs(a, n)} })

\* design_matrix[i, :] @ betas
Predict(row, betas) == RatNorm(Dot(row, betas.num), betas.den)

\* y[i] - y_out: the residual without the square
SqErrNoSquare(yi, yout) == RatSub(RatOfInt(yi), yout)

\* (y[i] - y_out)**2
SqErr(yi, yout) == The({ RatMul(d, d) : d \in {RatSub(RatOfInt(yi), yout)} })

\* "n=": the model count left out of the name
ModelNameNoCount(k) == "n="

\* f"n={n_basis_vectors}"
ModelName(k) == "n=" \o ToString(k)

\* d[key] = value for a python dict, kept as the sequence of its items in
\* insertion order: an existing key keeps its place and gets the new value
DictSet(d, key, value) ==
    IF \E t \in 1..Len(d) : d[t].key = key
    THEN [t \in 1..Len(d) |-> IF d[t].key = key THEN [key |-> key, value |-> value] ELSE d[t]]
    ELSE Append(d, [key |-> key, value |-> value])

DictKeys(d) == [t \in 1..Len(d) |-> d[t].key]

\* ---------------------------------------------------------------- state
VARIABLES
    pc,                   \* position in the notebook: "fit", "loo", "point", "done", "failed"
    error,                \* the exception that ended the run, "none" while there is none
    x, y,                 \* the grid and the observations
    basis_vectors,        \* the list of basis vectors
    total_basis_vectors,  \* len(basis_vectors), taken before the fitting loop
    inference_data_dict,  \* model name -> inference data, in insertion order
    write_log,            \* the keys assigned in inference_data_dict, in program order
    fit_pos, loo_pos, i_pos, \* how many values each for loop has taken from its range
    n_basis_vectors,      \* loop variable of both loops over the models
    model_name,
    design_matrix,
    loo_statistic,
    i, indices, x_in, y_in, design_matrix_in, betas, y_out,
    printed               \* the "LOO for n=...: ..." lines printed so far

vars == <<pc, error, x, y, basis_vectors, total_basis_vectors, inference_data_dict,
          write_log, fit_pos, loo_pos, i_pos, n_basis_vectors, model_name,
          design_matrix, loo_statistic, i, indices, x_in, y_in, design_matrix_in,
          betas, y_out, printed>>

data == <<x, y, basis_vectors, total_basis_vectors>>

fit_vars == <<inference_data_dict, write_log, fit_pos, model_name>>

point_vars == <<i, indices, x_in, y_in, design_matrix_in, betas, y_out>>

\* the first three of the notebook's basis vectors: np.ones_like(x), x, x**2
BasisVectors(xs) ==
    << [t \in 1..Len(xs) |-> 1], xs, [t \in 1..Len(xs) |-> xs[t] * xs[t]] >>

\* names not yet bound by the notebook hold these placeholders
Unset == 0 - 1

NoBetas == [ok |-> TRUE, err |-> "none", num |-> <<>>, den |-> 1]

\* what the data cells produce for a dataset of length n with observations ys
DataInit(n, ys) ==
    /\ x = Linspace(n)
    /\ y = ys
    /\ basis_vectors = BasisVectors(Linspace(n))
    /\ error = "none"
    /\ inference_data_dict = <<>>
    /\ write_log = <<>>
    /\ fit_pos = 0 /\ loo_pos = 0 /\ i_pos = 0
    /\ model_name = ""
    /\ design_matrix = <<>>
    /\ loo_statistic = RatOfInt(0)
    /\ i = Unset /\ indices = <<>> /\ x_in = <<>> /\ y_in = <<>>
    /\ design_matrix_in = <<>> /\ betas = NoBetas /\ y_out = RatOfInt(0)
    /\ printed = <<>>

\* the notebook after the data and basis-vector cells and after
\* total_basis_vectors = len(basis_vectors); inference_data_dict = {}
Init ==
    \E n \in 2..MaxN : \E ys \in [1..n -> 0..MaxY] :
        /\ DataInit(n, ys)
        /\ total_basis_vectors = Len(BasisVectors(Linspace(n)))
        /\ n_basis_vectors = Unset
        /\ pc = "fit"

\* what pm.sample returns for the model built in one pass of the fitting loop,
\* reduced to what the model was built from: its name, the shape of beta and
\* the rows of basis_vectors that pm.math.dot multiplies beta with (the
\* posterior draws themselves are not represented)
InferenceData(name, k, bv) ==
    [model |-> name, shape |-> k, basis |-> Slice(bv, k)]

\* one pass of: for n_basis_vectors in range(1, total_basis_vectors + 1)
FitModel ==
    /\ pc = "fit"
    /\ fit_pos < Len(Arange(1, total_basis_vectors + 1))
    /\ \E k \in {Arange(1, total_basis_vectors + 1)[fit_pos + 1]} :
       \E name \in {ModelName(k)} :
           /\ n_basis_vectors' = k
           /\ model_name' = name
           /\ inference_data_dict' =
                  DictSet(inference_data_dict, name, InferenceData(name, k, basis_vectors))
           /\ write_log' = Append(write_log, name)
    /\ fit_pos' = fit_pos + 1
    /\ UNCHANGED <<pc, error, data, loo_pos, i_pos, design_matrix, loo_statistic,
                   point_vars, printed>>

\* the fitting loop's range is exhausted: the notebook goes on to the LOO cell
FitEnd ==
    /\ pc = "fit"
    /\ fit_pos >= Len(Arange(1, total_basis_vectors + 1))
    /\ pc' = "loo"
    /\ UNCHANGED <<error, data, fit_vars, loo_pos, i_pos, n_basis_vectors, design_matrix,
                   loo_statistic, point_vars, printed>>

\* the head of the outer loop without loo_statistic = 0
LooModelNoReset ==
    /\ pc = "loo"
    /\ loo_pos < Len(Arange(1, Len(basis_vectors) + 1))
    /\ \E k \in {Arange(1, Len(basis_vectors) + 1)[loo_pos + 1]} :
       \E dm \in {DesignMatrix(basis_vectors, k)} :
           /\ n_basis_vectors' = k
           /\ design_matrix' = dm.value
           /\ pc' = "point"
    /\ loo_pos' = loo_pos + 1
    /\ i_pos' = 0
    /\ UNCHANGED <<error, loo_statistic, data, fit_vars, point_vars, printed>>

\* for n_basis_vectors in range(1, len(basis_vectors) + 1):
\*     design_matrix = np.vstack(basis_vectors[:n_basis_vectors]).T
\*     loo_statistic = 0
LooModel ==
    /\ pc = "loo"
    /\ loo_pos < Len(Arange(1, Len(basis_vectors) + 1))
    /\ \E k \in {Arange(1, Len(basis_vectors) + 1)[loo_pos + 1]} :
       \E dm \in {DesignMatrix(basis_vectors, k)} :
           /\ n_basis_vectors' = k
           /\ IF dm.ok
              THEN /\ design_matrix' = dm.value
                   /\ loo_statistic' = RatOfInt(0)
                   /\ pc' = "point"
                   /\ UNCHANGED error
              ELSE /\ pc' = "failed"
                   /\ error' = dm.err
                   /\ UNCHANGED <<design_matrix, loo_statistic>>
    /\ loo_pos' = loo_pos + 1
    /\ i_pos' = 0
    /\ UNCHANGED <<data, fit_vars, point_vars, printed>>

\* the outer loop's range is exhausted: the cell ends
LooEnd ==
    /\ pc = "loo"
    /\ loo_pos >= Len(Arange(1, Len(basis_vectors) + 1))
    /\ pc' = "done"
    /\ UNCHANGED <<error, data, fit_vars, loo_pos, i_pos, n_basis_vectors, design_matrix,
                   loo_statistic, point_vars, printed>>

\* one pass of: for i in range(len(x)), from indices = ... to loo_statistic += ...
LooPoint ==
    /\ pc = "point"
    /\ i_pos < Len(Arange(0, Len(x)))
    /\ \E ii \in {Arange(0, Len(x))[i_pos + 1]} :
       \E ind \in {Indices(ii, Len(x))} :
       \E fit \in {Lstsq(Take(design_matrix, ind), Take(y, ind), Len(design_matrix[1]))} :
           /\ i' = ii
           /\ indices' = ind
           /\ x_in' = Take(x, ind)
           /\ y_in' = Take(y, ind)
           /\ design_matrix_in' = Take(design_matrix, ind)
           /\ IF fit.ok
              THEN /\ betas' = fit
                   /\ y_out' = Predict(design_matrix[ii + 1], fit)
                   /\ loo_statistic' =
                          RatAdd(loo_statistic,
                                 SqErr(y[ii + 1], Predict(design_matrix[ii + 1], fit)))
                   /\ UNCHANGED <<pc, error>>
              ELSE /\ pc' = "failed"
                   /\ error' = fit.err
                   /\ UNCHANGED <<betas, y_out, loo_statistic>>
    /\ i_pos' = i_pos + 1
    /\ UNCHANGED <<data, fit_vars, loo_pos, n_basis_vectors, design_matrix, printed>>

\* the normalisation applied to y in place: y /= len(x)
LooNormalizeWritesY ==
    /\ pc = "point"
    /\ i_pos >= Len(Arange(0, Len(x)))
    /\ y' = [t \in 1..Len(y) |-> y[t] \div Len(x)]
    /\ printed' = Append(printed, [n |-> n_basis_vectors, loo |-> loo_statistic])
    /\ pc' = "loo"
    /\ UNCHANGED <<error, x, basis_vectors, total_basis_vectors, fit_vars, loo_pos, i_pos,
                   n_basis_vectors, design_matrix, loo_statistic, point_vars>>

\* the inner loop's range is exhausted:
\*     loo_statistic /= len(x); print(f"LOO for n={n_basis_vectors}: {loo_statistic}")
LooNormalize ==
    /\ pc = "point"
    /\ i_pos >= Len(Arange(0, Len(x)))
    /\ loo_statistic' = RatDivInt(loo_statistic, Len(x))
    /\ printed' = Append(printed, [n |-> n_basis_vectors,
                                   loo |-> RatDivInt(loo_statistic, Len(x))])
    /\ pc' = "loo"
    /\ UNCHANGED <<error, data, fit_vars, loo_pos, i_pos, n_basis_vectors, design_matrix,
                   point_vars>>

Next == FitModel \/ FitEnd \/ LooModel \/ LooEnd \/ LooPoint \/ LooNormalize

Spec == Init /\ [][Next]_vars

\* ------------------------------------------- the design-matrix builder alone
\* The expression np.vstack(basis_vectors[:k]).T applied to any count k from
\* 0 to len(basis_vectors) + 1, outside the loops that only pass 1..len.
InitBuild ==
    \E n \in 2..MaxN : \E ys \in [1..n -> 0..MaxY] :
    \E k \in 0..(Len(BasisVectors(Linspace(n))) + 1) :
        /\ DataInit(n, ys)
        /\ total_basis_vectors = Len(BasisVectors(Linspace(n)))
        /\ n_basis_vectors = k
        /\ pc = "build"

Build ==
    /\ pc = "build"
    /\ \E dm \in {DesignMatrix(basis_vectors, n_basis_vectors)} :
           IF dm.ok
           THEN /\ design_matrix' = dm.value
                /\ pc' = "built"
                /\ UNCHANGED error
           ELSE /\ pc' = "failed"
                /\ error' = dm.err
                /\ UNCHANGED design_matrix
    /\ UNCHANGED <<data, fit_vars, loo_pos, i_pos, n_basis_vectors, loo_statistic,
                   point_vars, printed>>

SpecBuild == InitBuild /\ [][Build]_vars

\* --------------------------------------------------------------- properties
\* at least one pass of the inner loop has run for the current model
PointDone == pc = "point" /\ i_pos > 0

\* 0, 1, ..., n-1 without ii, in increasing order
AllExcept(ii, n) == [t \in 1..(n - 1) |-> IF t - 1 < ii THEN t - 1 ELSE t]

\* the weights num/den solve the normal equations a^T (a beta - b) = 0
NormalEquations(a, b, num, den) ==
    \A c \in 1..Len(num) :
        SumSeq([r \in 1..Len(a) |-> a[r][c] * (Dot(a[r], num) - den * b[r])]) = 0

\* the squared error the loop adds for model k at index ii
LooTerm(k, ii) ==
    The({ The({ The({ SqErr(y[ii + 1], yo) : yo \in {Predict(dm[ii + 1], fit)} }) :
                fit \in {Lstsq(Take(dm, Indices(ii, Len(x))),
                               Take(y, Indices(ii, Len(x))), k)} }) :
          dm \in {DesignMatrix(basis_vectors, k).value} })

\* the sum of the terms of model k for the indices 0..m-1
RECURSIVE LooPartial(_, _)
LooPartial(k, m) ==
    IF m = 0 THEN RatOfInt(0)
    ELSE The({ RatAdd(p, t) : p \in {LooPartial(k, m - 1)}, t \in {LooTerm(k, m - 1)} })

\* C1: after every pass of the inner loop, the training indices are all of
\* 0..N-1 except i, so the training set has exactly N-1 rows.
C1_TrainingDropsExactlyI ==
    PointDone =>
        /\ indices = AllExcept(i, Len(x))
        /\ Len(design_matrix_in) = Len(x) - 1
        /\ Len(y_in) = Len(x) - 1

\* C2: within a model the accumulator holds the sum of one squared-error
\* term per index already visited, starting from 0; every printed score of
\* model k is the sum over all N indices divided by N once, a value that
\* depends on k alone and not on what other models accumulated.
C2_Accumulator ==
    /\ pc = "point" => loo_statistic = LooPartial(n_basis_vectors, i_pos)
    /\ \A t \in 1..Len(printed) :
           /\ printed[t].n = t
           /\ \A total \in {LooPartial(t, Len(x))} :
                  printed[t].loo = RatDivInt(total, Len(x))
    /\ (pc = "loo" /\ loo_pos > 0) => loo_statistic = printed[loo_pos].loo

C2_Witness ==
    /\ Len(printed) >= 2
    /\ printed[1].loo[1] > 0
    /\ printed[2].loo # printed[1].loo

\* C3: the design matrix of model k is N x k with column j equal to basis
\* vector j, for k in 1..len(basis_vectors); the fitting loop multiplies
\* beta with the same prefix of the collection.
C3_DesignMatrixPrefix ==
    /\ pc = "point" =>
           /\ n_basis_vectors \in 1..Len(basis_vectors)
           /\ Len(design_matrix) = Len(x)
           /\ \A r \in 1..Len(x) :
                  /\ Len(design_matrix[r]) = n_basis_vectors
                  /\ \A c \in 1..n_basis_vectors : design_matrix[r][c] = basis_vectors[c][r]
    /\ \A t \in 1..Len(inference_data_dict) :
           /\ inference_data_dict[t].value.shape = t
           /\ inference_data_dict[t].value.basis = [c \in 1..t |-> basis_vectors[c]]

C3_Witness ==
    /\ pc = "point"
    /\ n_basis_vectors = Len(basis_vectors)
    /\ Len(inference_data_dict) = Len(basis_vectors)

C7_InputsUnchanged ==
    /\ [](/\ x = Linspace(Len(x))
          /\ basis_vectors = BasisVectors(Linspace(Len(x)))
          /\ pc = "point" => design_matrix = DesignMatrix(basis_vectors, n_basis_vectors).value)
    /\ [][/\ x' = x
          /\ y' = y
          /\ basis_vectors' = basis_vectors
          /\ (pc = "point" /\ pc' = "point") => design_matrix' = design_matrix]_vars

C7_Witness ==
    /\ pc = "done"
    /\ Len(printed) = Len(basis_vectors)

\* C8: the accumulator and every printed score are >= 0, and a pass of the
\* inner loop never decreases the accumulator.
C8_NonNegativeMonotone ==
    /\ [](/\ loo_statistic[1] >= 0
          /\ loo_statistic[2] > 0
          /\ \A t \in 1..Len(printed) : printed[t].loo[1] >= 0)
    /\ [][(pc = "point" /\ pc' = "point") => RatLeq(loo_statistic, loo_statistic')]_vars

C8_Witness ==
    /\ PointDone
    /\ i_pos >= 2
    /\ loo_statistic[1] > 0
    /\ y_out[1] > y[i + 1] * y_out[2]

\* C9: the fitting loop takes k = 1, 2, ... in increasing order, each pass
\* appends the entry keyed "n=k" holding model k's result and leaves the
\* earlier entries alone, every key is written once, and when the loop has
\* ended the mapping has total_basis_vectors entries with distinct keys.
C9_FitLoopSlots ==
    /\ [](/\ Len(inference_data_dict) = fit_pos
          /\ DictKeys(inference_data_dict) = SubSeq(<<"n=1", "n=2", "n=3">>, 1, fit_pos)
          /\ write_log = DictKeys(inference_data_dict)
          /\ \A s, t \in 1..Len(inference_data_dict) :
                 s # t => inference_data_dict[s].key # inference_data_dict[t].key
          /\ \A t \in 1..Len(inference_data_dict) :
                 /\ inference_data_dict[t].value.shape = t
                 /\ inference_data_dict[t].value.model = inference_data_dict[t].key
          /\ pc # "fit" => Len(inference_data_dict) = total_basis_vectors)
    /\ [][fit_pos' # fit_pos =>
              /\ fit_pos' = fit_pos + 1
              /\ n_basis_vectors' = fit_pos + 1
              /\ Len(inference_data_dict') = Len(inference_data_dict) + 1
              /\ SubSeq(inference_data_dict', 1, Len(inference_data_dict)) = inference_data_dict]_vars

C9_Witness ==
    /\ pc = "loo"
    /\ Len(inference_data_dict) = 3
    /\ fit_pos = total_basis_vectors

\* C10: after every pass of the inner loop the held-out index i is not among
\* the training indices, every training index is in 0..N-1, the training
\* indices increase strictly, the training rows and observations are the
\* rows and observations at those indices, the weights fit those rows, and
\* the prediction is row i of the full design matrix times the weights.
C10_HeldOutNotInTraining ==
    PointDone =>
        /\ i \in 0..(Len(x) - 1)
        /\ \A t \in 1..Len(indices) : indices[t] # i /\ indices[t] \in 0..(Len(x) - 1)
        /\ \A t \in 1..(Len(indices) - 1) : indices[t] < indices[t + 1]
        /\ Len(design_matrix_in) = Len(indices)
        /\ Len(y_in) = Len(indices)
        /\ \A t \in 1..Len(indices) :
               /\ design_matrix_in[t] = design_matrix[indices[t] + 1]
               /\ y_in[t] = y[indices[t] + 1]
        /\ NormalEquations(design_matrix_in, y_in, betas.num, betas.den)
        /\ y_out[1] * betas.den = Dot(design_matrix[i + 1], betas.num) * y_out[2]

C10_Witness ==
    /\ PointDone
    /\ i = Len(x) - 1
    /\ Len(indices) > 0
    /\ n_basis_vectors > 1

====
